---- MODULE Spec2Model ----
(***************************************************************************)
(* Model of src/modules/file/get_file_diff.ts: getFileDiff, formatFile,    *)
(* getParsedContent and getAuthors.  One invocation of getFileDiff is one  *)
(* behaviour; every step is the code that runs between two awaits.         *)
(*                                                                         *)
(* An optional value (undefined in the source) is a sequence of length 0   *)
(* or 1: None is undefined and Some(x) is the value x.  A JavaScript       *)
(* string that the code inspects (author tokens, logins, status) is a      *)
(* sequence of one-character strings.                                      *)
(***************************************************************************)
EXTENDS Integers, Sequences, FiniteSets, TLC

\* Largest number of pieces (tokens or other text) in a raw author list.
MaxAuthors == 2

None == <<>>
Some(x) == <<x>>

(***************************************************************************)
(* Strings                                                                 *)
(***************************************************************************)
LowerChar(c) ==
  CASE c = "A" -> "a"
    [] c = "B" -> "b"
    [] c = "D" -> "d"
    [] OTHER -> c

\* String.prototype.toLowerCase, character by character.
RECURSIVE toLowerCase(_)
toLowerCase(s) ==
  IF s = <<>> THEN <<>> ELSE <<LowerChar(Head(s))>> \o toLowerCase(Tail(s))

\* Text of an author list that AUTHOR_RE does not capture.
Junk == <<"?">>

\* The pieces a raw author list is made of: handles, emails, other text.
Pieces == { <<"@", "A">>, <<"@", "a">>, <<"A">>, <<"b">>, Junk }

\* The raw author lists: "" is the list of no piece.
RawAuthorLists == UNION { [1..n -> Pieces] : n \in 0..MaxAuthors }

\* matchAll(rawAuthorList, AUTHOR_RE, 1): the captured tokens, in order.
matchAll(raw) == SelectSeq(raw, LAMBDA p : p # Junk)

\* !rawAuthorList: undefined and the empty string are both falsy.
IsFalsyString(opt) == opt = None \/ opt[1] = <<>>

(***************************************************************************)
(* Collaborators: the change request, the content API, the user search     *)
(***************************************************************************)
HeadSha == "sha-head"
BaseSha == "sha-base"
PullRequest == [head |-> [sha |-> HeadSha], base |-> [sha |-> BaseSha]]

\* The files getFileDiff is called with (file.filename).
Files == { "EIPS/eip-1.md", "EIPS/README.md" }

BaseName(path) ==
  CASE path = "EIPS/eip-1.md" -> "eip-1.md"
    [] OTHER -> "README.md"

\* Front-matter attributes of a document.
Doc(eip, status, author, category, type) ==
  [eip |-> eip, status |-> status, author |-> author,
   category |-> category, type |-> type]

Statuses == { None, Some(<<"D", "r">>) }
Categories == { None, Some("core") }
Types == { None, Some("meta"), Some("standards track") }

\* Documents that vary the author list, the other attributes being well formed.
AuthorDocs ==
  { Doc(Some(1), Some(<<"D", "r">>), Some(raw), None, Some("meta")) :
      raw \in RawAuthorLists }

\* Documents that vary the other attributes.
AttrDocs ==
  { Doc(e, s, a, c, t) :
      e \in { None, Some(1) }, s \in Statuses,
      a \in { None, Some(<<>>), Some(<< <<"@", "A">> >>) },
      c \in Categories, t \in Types }

Docs == AuthorDocs \cup AttrDocs

\* Documents of the base revision.
BaseDocs ==
  { Doc(Some(1), Some(<<"D", "r">>), a, None, Some("meta")) :
      a \in { None, Some(<<>>), Some(<< <<"A">> >>), Some(<< <<"@", "a">>, <<"b">> >>) } }
  \cup { Doc(None, None, None, None, Some("meta")),
         Doc(Some(1), Some(<<"D", "r">>), None, None, None) }

Doc0 == Doc(Some(1), Some(<<"D", "r">>), Some(<< <<"@", "A">> >>), None, Some("meta"))

RequestFailed == [failed |-> TRUE, data |-> None]

Data(content, path, name, encoding) ==
  [failed |-> FALSE,
   data |-> Some([content |-> content, path |-> path, name |-> name,
                  encoding |-> encoding])]

\* Responses with a part missing or an unsupported encoding.
BrokenResponses(filename) ==
  { RequestFailed, [failed |-> FALSE, data |-> None] }
  \cup { Data(c, p, n, e) :
           c \in { None, Some(Doc0) }, p \in { None, Some(filename) },
           n \in { None, Some(BaseName(filename)) }, e \in { "base64", "utf-16" } }

GoodResponses(filename, docs) ==
  { Data(Some(d), Some(filename), Some(BaseName(filename)), "base64") : d \in docs }

\* Failing responses of the base revision: the file is not there, the name is
\* missing, the encoding is unsupported.
BaseBrokenResponses(filename) ==
  { RequestFailed,
    Data(Some(Doc0), Some(filename), None, "base64"),
    Data(Some(Doc0), Some(filename), Some(BaseName(filename)), "utf-16") }

HeadResponses(filename) == BrokenResponses(filename) \cup GoodResponses(filename, Docs)
BaseResponses(filename) == BaseBrokenResponses(filename) \cup GoodResponses(filename, BaseDocs)

SearchFailed == [failed |-> TRUE, total_count |-> 0, items |-> <<>>]

\* What Github.search.users answers.
SearchOutcomes ==
  { SearchFailed,
    [failed |-> FALSE, total_count |-> 0, items |-> <<>>],
    [failed |-> FALSE, total_count |-> 2,
     items |-> << [login |-> <<"A">>], [login |-> <<"B">>] >>] }

Error(kind, about, ref) == [kind |-> kind, about |-> about, ref |-> ref]

Throw(e) == [err |-> Some(e), value |-> None]
Return(v) == [err |-> None, value |-> Some(v)]

(***************************************************************************)
(* getParsedContent                                                        *)
(***************************************************************************)
\* requireEncoding(encoding, filename): TRUE when the encoding is accepted.
requireEncoding(encoding, filename) == encoding = "base64"

\* front-matter: the attributes of the decoded text.
frontmatter(text) == [attributes |-> text, body |-> <<>>]

\* Buffer.from(data.content, encoding).toString(), once the encoding is accepted.
decodeData(data) == data.content[1]

\* getParsedContent with a missing name replaced by the file's name.
getParsedContentDefaultName(filename, sha, resp) ==
  IF resp.failed
  THEN Throw(Error("RequestError", filename, sha))
  ELSE IF resp.data = None \/ resp.data[1].content = None
  THEN Throw(Error("NoContent", filename, sha))
  ELSE IF resp.data[1].path = None
  THEN Throw(Error("NoPath", filename, sha))
  ELSE IF ~requireEncoding(resp.data[1].encoding, filename)
  THEN Throw(Error("Encoding", filename, sha))
  ELSE Return([path |-> resp.data[1].path[1],
               name |-> IF resp.data[1].name = None
                        THEN BaseName(filename) ELSE resp.data[1].name[1],
               content |-> frontmatter(decodeData(resp.data[1]))])

\* The code of getParsedContent after its await, on the response resp (a
\* rejected request throws at the await).
getParsedContent(filename, sha, resp) ==
  IF resp.failed
  THEN Throw(Error("RequestError", filename, sha))
  ELSE IF resp.data = None \/ resp.data[1].content = None
  THEN Throw(Error("NoContent", filename, sha))
  ELSE IF resp.data[1].path = None
  THEN Throw(Error("NoPath", filename, sha))
  ELSE IF resp.data[1].name = None
  THEN Throw(Error("NoName", filename, sha))
  ELSE IF ~requireEncoding(resp.data[1].encoding, filename)
  THEN Throw(Error("Encoding", filename, sha))
  ELSE Return([path |-> resp.data[1].path[1],
               name |-> resp.data[1].name[1],
               content |-> frontmatter(decodeData(resp.data[1]))])

(***************************************************************************)
(* getAuthors                                                              *)
(***************************************************************************)
isHandleNever(author) == FALSE

\* author[0] === "@"
isHandle(author) == author # <<>> /\ author[1] = "@"

\* findUserByEmail taking the last item of the results.
findUserByEmailLast(results) ==
  IF results.total_count > 0 /\ results.items # <<>>
  THEN [user |-> Some(<<"@">> \o results.items[Len(results.items)].login),
        warned |-> FALSE]
  ELSE [user |-> None, warned |-> TRUE]

\* findUserByEmail after its await: the user it returns and whether it warned.
findUserByEmail(results) ==
  IF results.total_count > 0 /\ results.items # <<>>
  THEN [user |-> Some(<<"@">> \o results.items[1].login), warned |-> FALSE]
  ELSE [user |-> None, warned |-> TRUE]

\* resolveAuthor of an email, after findUserByEmail: (queriedUser || author).toLowerCase()
resolveEmail(author, queriedUser) ==
  toLowerCase(IF queriedUser = None THEN author ELSE queriedUser[1])

promiseAllSlotByCompletion(i, k) == k

\* Promise.all: the slot of the result array that holds the value of the i-th
\* promise when it is the k-th to settle.
promiseAllSlot(i, k) == i

\* authors.map(resolveAuthor), up to each resolveAuthor's first await: a handle
\* is resolved at once, an email has its search request issued.
getAuthorsMap(authors) ==
  [state |-> [i \in 1..Len(authors) |->
                IF isHandle(authors[i]) THEN "sync" ELSE "pending"],
   issued |-> [i \in 1..Len(authors) |-> IF isHandle(authors[i]) THEN 0 ELSE 1],
   resolved |-> [i \in 1..Len(authors) |->
                   IF isHandle(authors[i])
                   THEN Some(toLowerCase(authors[i])) ELSE None]]

\* new Set(resolved)
SetOf(resolved) ==
  UNION { { resolved[i][j] : j \in 1..Len(resolved[i]) } : i \in 1..Len(resolved) }

(***************************************************************************)
(* formatFile                                                              *)
(***************************************************************************)
\* requireFilenameEipNum(file.name): the number in the file's name, if any.
requireFilenameEipNum(name) ==
  CASE name = "eip-1.md" -> Some(1)
    [] OTHER -> None

\* assertCategory({maybeCategory, fileName, maybeType}): None when it throws.
assertCategory(maybeCategory, fileName, maybeType) ==
  IF maybeType = None THEN None
  ELSE IF maybeType[1] = "meta"
  THEN Some([category |-> "meta", type |-> "meta"])
  ELSE IF maybeCategory = None THEN None
  ELSE Some([category |-> maybeCategory[1], type |-> maybeType[1]])

\* The activation of one formatFile(file) call, with the bookkeeping of its
\* getAuthors call:
\*   authors        matchAll's tokens
\*   state[i]       "sync" (a handle), "pending", "done" or "failed" (a lookup)
\*   issued[i]      the search requests sent for token i
\*   response[i]    what the search answered for token i
\*   resolved       the result array of Promise.all
\*   warns[i]       the console.warn calls made for token i
\*   order          the tokens whose lookup has settled, in the order of settling
\*   classifyCalls  the assertCategory calls made
\*   returned       the FormattedFile, once returned
\*   failed         whether the call threw
NoRun ==
  [started |-> FALSE, file |-> None, falsy |-> FALSE, authors |-> <<>>,
   state |-> <<>>, issued |-> <<>>, response |-> <<>>, resolved |-> <<>>,
   warns |-> <<>>, order |-> <<>>, classifyCalls |-> 0, returned |-> None,
   failed |-> FALSE]

filenameEipNumMissingNever(filenameEipNum) == FALSE

\* !filenameEipNum
filenameEipNumMissing(filenameEipNum) == filenameEipNum = None

\* formatFile(file) up to its await of getAuthors: the activation and what it
\* threw, if it did.
formatFileStart(file) ==
  LET attrs == file.content.attributes
      run0 == [NoRun EXCEPT !.started = TRUE, !.file = Some(file)]
  IN IF filenameEipNumMissing(requireFilenameEipNum(file.name))
     THEN [run |-> [run0 EXCEPT !.failed = TRUE],
           err |-> Some(Error("Extraction", file.path, ""))]
     ELSE IF attrs.status = None
     THEN [run |-> [run0 EXCEPT !.failed = TRUE],
           err |-> Some(Error("TypeError", "status", ""))]
     ELSE IF IsFalsyString(attrs.author)
     THEN [run |-> [run0 EXCEPT !.falsy = TRUE], err |-> None]
     ELSE LET authors == matchAll(attrs.author[1])
              m == getAuthorsMap(authors)
          IN [run |-> [run0 EXCEPT !.authors = authors, !.state = m.state,
                                   !.issued = m.issued, !.resolved = m.resolved,
                                   !.response = [i \in 1..Len(authors) |-> None],
                                   !.warns = [i \in 1..Len(authors) |-> 0]],
              err |-> None]

\* formatFile from the return of getAuthors on: the two assertCategory calls
\* and the FormattedFile.
formatFileFinish(run) ==
  LET file == run.file[1]
      attrs == file.content.attributes
      classified == assertCategory(attrs.category, file.name, attrs.type)
  IN IF classified = None
     THEN [run |-> [run EXCEPT !.classifyCalls = 1, !.failed = TRUE],
           err |-> Some(Error("Category", file.name, ""))]
     ELSE [run |-> [run EXCEPT
                      !.classifyCalls = 2,
                      !.returned =
                        Some([eipNum |-> attrs.eip,
                              status |-> toLowerCase(attrs.status[1]),
                              authors |-> IF run.falsy THEN None
                                          ELSE Some(SetOf(run.resolved)),
                              name |-> file.name,
                              filenameEipNum |-> requireFilenameEipNum(file.name),
                              category |-> classified[1].category,
                              type |-> classified[1].type])],
           err |-> None]

(***************************************************************************)
(* getFileDiff                                                             *)
(***************************************************************************)
VARIABLES
  pc,        \* where getFileDiff is: "requirePr", "fetchHead", "fetchBase",
             \* "formatHead", "formatBase", "done" (returned), "failed" (threw)
  filename,  \* file.filename
  pr,        \* the change request, once obtained
  fetches,   \* the refs of the getContent requests sent, in order
  headResp,  \* the response to the head request, once received
  baseResp,  \* the response to the base request, once received
  head,      \* const head
  base,      \* const base
  fmt,       \* the two formatFile activations
  result,    \* the FileDiff returned
  error      \* what getFileDiff threw

vars == <<pc, filename, pr, fetches, headResp, baseResp, head, base, fmt, result, error>>

Runs == { "head", "base" }

Init ==
  /\ pc = "requirePr"
  /\ filename \in Files
  /\ pr = None
  /\ fetches = <<>>
  /\ headResp = None
  /\ baseResp = None
  /\ head = None
  /\ base = None
  /\ fmt = [r \in Runs |-> NoRun]
  /\ result = None
  /\ error = None

headRefIsBase(p) == p.base.sha

\* pr.head.sha
headRef(p) == p.head.sha

\* pr.base.sha
baseRef(p) == p.base.sha

baseFetchCaughtNotFoundOnly(e) == e.kind = "RequestError"

\* .catch(() => head): every rejection of the base fetch is caught.
baseFetchCaught(e) == TRUE

\* requirePr() settles; on success the head fetch is requested.
RequirePrReturns ==
  /\ pc = "requirePr"
  /\ \E found \in BOOLEAN :
       IF found
       THEN /\ pr' = Some(PullRequest)
            /\ fetches' = Append(fetches, headRef(PullRequest))
            /\ pc' = "fetchHead"
            /\ error' = error
       ELSE /\ pc' = "failed"
            /\ error' = Some(Error("ContextMissing", "", ""))
            /\ UNCHANGED <<pr, fetches>>
  /\ UNCHANGED <<filename, headResp, baseResp, head, base, fmt, result>>

\* The head fetch settles; on success the base fetch is requested.
HeadFetchReturns ==
  /\ pc = "fetchHead"
  /\ \E resp \in HeadResponses(filename) :
       LET r == getParsedContent(filename, fetches[1], resp)
       IN /\ headResp' = Some(resp)
          /\ IF r.err = None
             THEN /\ head' = r.value
                  /\ fetches' = Append(fetches, baseRef(pr[1]))
                  /\ pc' = "fetchBase"
                  /\ error' = error
             ELSE /\ pc' = "failed"
                  /\ error' = r.err
                  /\ UNCHANGED <<head, fetches>>
  /\ UNCHANGED <<filename, pr, baseResp, base, fmt, result>>

\* The base fetch settles, a rejection is replaced by head, and formatFile(head)
\* runs up to its await.
BaseFetchReturns ==
  /\ pc = "fetchBase"
  /\ \E resp \in BaseResponses(filename) :
       LET r == getParsedContent(filename, fetches[2], resp)
           s == formatFileStart(head[1])
       IN /\ baseResp' = Some(resp)
          /\ IF r.err # None /\ ~baseFetchCaught(r.err[1])
             THEN /\ pc' = "failed"
                  /\ error' = r.err
                  /\ UNCHANGED <<base, fmt>>
             ELSE /\ base' = IF r.err = None THEN r.value ELSE head
                  /\ fmt' = [fmt EXCEPT !.head = s.run]
                  /\ pc' = IF s.err = None THEN "formatHead" ELSE "failed"
                  /\ error' = s.err
  /\ UNCHANGED <<filename, pr, fetches, headResp, head, result>>

\* The search for token i of run r settles.
SearchReturns(r, i) ==
  /\ fmt[r].state[i] = "pending"
  /\ \E res \in SearchOutcomes :
       IF res.failed
       THEN /\ fmt' = [fmt EXCEPT ![r].state[i] = "failed",
                                  ![r].response[i] = Some(res),
                                  ![r].order = Append(@, i),
                                  ![r].failed = TRUE]
            /\ pc' = "failed"
            /\ error' = IF pc = "failed" THEN error
                        ELSE Some(Error("SearchError", "", ""))
       ELSE LET q == findUserByEmail(res)
                slot == promiseAllSlot(i, Len(fmt[r].order) + 1)
            IN /\ fmt' = [fmt EXCEPT
                            ![r].state[i] = "done",
                            ![r].response[i] = Some(res),
                            ![r].order = Append(@, i),
                            ![r].warns[i] = IF q.warned THEN @ + 1 ELSE @,
                            ![r].resolved[slot] =
                              Some(resolveEmail(fmt[r].authors[i], q.user))]
               /\ UNCHANGED <<pc, error>>
  /\ UNCHANGED <<filename, pr, fetches, headResp, baseResp, head, base, result>>

Joined(run) ==
  /\ run.started
  /\ ~run.failed
  /\ \A i \in 1..Len(run.authors) : run.state[i] \in { "sync", "done" }

\* getAuthors of the head returns; formatFile(head) finishes and formatFile(base)
\* runs up to its await.
FormatHeadReturns ==
  /\ pc = "formatHead"
  /\ Joined(fmt.head)
  /\ LET f == formatFileFinish(fmt.head)
         s == formatFileStart(base[1])
     IN IF f.err # None
        THEN /\ fmt' = [fmt EXCEPT !.head = f.run]
             /\ pc' = "failed"
             /\ error' = f.err
        ELSE /\ fmt' = [fmt EXCEPT !.head = f.run, !.base = s.run]
             /\ pc' = IF s.err = None THEN "formatBase" ELSE "failed"
             /\ error' = s.err
  /\ UNCHANGED <<filename, pr, fetches, headResp, baseResp, head, base, result>>

\* getAuthors of the base returns; formatFile(base) finishes and getFileDiff
\* returns.
FormatBaseReturns ==
  /\ pc = "formatBase"
  /\ Joined(fmt.base)
  /\ LET f == formatFileFinish(fmt.base)
     IN /\ fmt' = [fmt EXCEPT !.base = f.run]
        /\ IF f.err # None
           THEN /\ pc' = "failed"
                /\ error' = f.err
                /\ result' = result
           ELSE /\ pc' = "done"
                /\ error' = error
                /\ result' = Some([head |-> fmt.head.returned[1],
                                   base |-> f.run.returned[1]])
  /\ UNCHANGED <<filename, pr, fetches, headResp, baseResp, head, base>>

SearchReturnsAny == \E r \in Runs : \E i \in 1..Len(fmt[r].authors) : SearchReturns(r, i)

Next ==
  \/ RequirePrReturns
  \/ HeadFetchReturns
  \/ BaseFetchReturns
  \/ SearchReturnsAny
  \/ FormatHeadReturns
  \/ FormatBaseReturns

Spec == Init /\ [][Next]_vars

(***************************************************************************)
(* Vocabulary of the properties                                            *)
(***************************************************************************)
StartsWithAt(token) == Len(token) > 0 /\ Head(token) = "@"

HasUpperCase(str) == \E j \in 1..Len(str) : str[j] \in { "A", "B", "D" }

\* The response lacks a part getParsedContent requires.
LacksPart(resp) ==
  \/ resp.data = None
  \/ resp.data[1].content = None
  \/ resp.data[1].path = None
  \/ resp.data[1].name = None

\* The response carries everything but an encoding that is accepted.
BadEncoding(resp) ==
  ~resp.failed /\ ~LacksPart(resp) /\ resp.data[1].encoding # "base64"

\* The fetch that got this response fails.
FetchFails(resp) == resp.failed \/ LacksPart(resp) \/ BadEncoding(resp)

BaseFetchFailed == baseResp # None /\ FetchFails(baseResp[1])

Attrs(run) == run.file[1].content.attributes

\* What token i of the run resolves to, given what the search answered for it.
Resolution(run, i) ==
  IF StartsWithAt(run.authors[i]) THEN toLowerCase(run.authors[i])
  ELSE IF run.response[i][1].items # <<>>
  THEN toLowerCase(<<"@">> \o run.response[i][1].items[1].login)
  ELSE toLowerCase(run.authors[i])

EqualButAuthors(a, b) ==
  /\ a.eipNum = b.eipNum
  /\ a.status = b.status
  /\ a.name = b.name
  /\ a.filenameEipNum = b.filenameEipNum
  /\ a.category = b.category
  /\ a.type = b.type

(***************************************************************************)
(* C1                                                                      *)
(***************************************************************************)
\* C1, as stated: whenever the head fetch succeeds and the base fetch fails,
\* getFileDiff returns a FileDiff whose base is deep-equal to its head.
C1_AlwaysReturnsEqual ==
  (BaseFetchFailed /\ pc \in { "done", "failed" })
    => (result # None /\ result[1].base = result[1].head)

\* C1, amended: whenever the head fetch succeeds and the base fetch fails, for
\* any reason, the failure is not thrown, the head ParsedContent is the base,
\* formatFile runs on it a second time with search requests of its own, and a
\* FileDiff that is returned has a base equal to its head in every field but
\* authors, and in authors too when the search answered both runs alike.
C1_BaseFallback ==
  BaseFetchFailed =>
    /\ base = head
    /\ head # None
    /\ error # None =>
         error[1].kind \notin { "RequestError", "NoContent", "NoPath", "NoName", "Encoding" }
    /\ fmt.base.started =>
         /\ fmt.base.file = head
         /\ fmt.head.returned # None
         /\ fmt.base.authors = fmt.head.authors
         /\ fmt.base.issued = fmt.head.issued
         /\ \A i \in 1..Len(fmt.base.authors) :
              fmt.base.state[i] = "pending" => fmt.base.response[i] = None
    /\ pc = "done" =>
         /\ result # None
         /\ EqualButAuthors(result[1].base, result[1].head)
         /\ fmt.base.response = fmt.head.response => result[1].base = result[1].head

\* C1's case: the base fetch failed, both runs made a lookup and the FileDiff
\* returned has a base equal to its head.
C1_Witness ==
  /\ BaseFetchFailed
  /\ pc = "done"
  /\ fmt.head.order # <<>>
  /\ fmt.base.order # <<>>
  /\ result[1].base = result[1].head

(***************************************************************************)
(* C2                                                                      *)
(***************************************************************************)
\* C2: when the head request fails or its response lacks content, path or
\* name, getFileDiff throws the error of that failure, returns nothing, never
\* requests the base and formats nothing.
C2_HeadFailureFatal ==
  (headResp # None /\ (headResp[1].failed \/ LacksPart(headResp[1]))) =>
    /\ pc = "failed"
    /\ error # None
    /\ error[1].about = filename
    /\ error[1].ref = HeadSha
    /\ IF headResp[1].failed THEN error[1].kind = "RequestError"
       ELSE \/ error[1].kind = "NoContent"
               /\ (headResp[1].data = None \/ headResp[1].data[1].content = None)
            \/ error[1].kind = "NoPath" /\ headResp[1].data[1].path = None
            \/ error[1].kind = "NoName" /\ headResp[1].data[1].name = None
    /\ result = None
    /\ head = None
    /\ base = None
    /\ baseResp = None
    /\ fetches = <<HeadSha>>
    /\ ~fmt.head.started

\* C2's case: the head response lacks only its name.
C2_Witness ==
  /\ headResp # None
  /\ ~headResp[1].failed
  /\ headResp[1].data # None
  /\ headResp[1].data[1].content # None
  /\ headResp[1].data[1].path # None
  /\ headResp[1].data[1].name = None
  /\ pc = "failed"
  /\ error[1].kind = "NoName"

(***************************************************************************)
(* C3                                                                      *)
(***************************************************************************)
\* C3: when every token of an author list starts with "@", getAuthors sends no
\* search request and returns the set of the lowercased tokens.
C3_HandlesOnly ==
  \A r \in Runs :
    (/\ fmt[r].started
     /\ ~fmt[r].falsy
     /\ \A i \in 1..Len(fmt[r].authors) : StartsWithAt(fmt[r].authors[i])) =>
      /\ \A i \in 1..Len(fmt[r].authors) : fmt[r].issued[i] = 0
      /\ fmt[r].order = <<>>
      /\ fmt[r].returned # None =>
           /\ fmt[r].returned[1].authors =
                Some({ toLowerCase(fmt[r].authors[i]) : i \in 1..Len(fmt[r].authors) })
           /\ \A a \in fmt[r].returned[1].authors[1] : ~HasUpperCase(a)

\* C3's case: "@A, @a" has given the one author "@a".
C3_Witness ==
  \E r \in Runs :
    /\ fmt[r].authors = << <<"@", "A">>, <<"@", "a">> >>
    /\ fmt[r].returned # None
    /\ fmt[r].returned[1].authors = Some({ <<"@", "a">> })

(***************************************************************************)
(* C4                                                                      *)
(***************************************************************************)
\* C4: a token that does not start with "@" gets exactly one search request;
\* when the search gives a result the token resolves to "@" and the first
\* login, lowercased, without a warning; when it gives none the token resolves
\* to itself, lowercased, with exactly one warning, and getAuthors does not
\* fail.
C4_EmailLookup ==
  \A r \in Runs :
    \A i \in 1..Len(fmt[r].authors) :
      ~StartsWithAt(fmt[r].authors[i]) =>
        /\ fmt[r].issued[i] = 1
        /\ fmt[r].state[i] = "pending" => fmt[r].warns[i] = 0
        /\ fmt[r].state[i] = "done" =>
             IF fmt[r].response[i][1].items # <<>>
             THEN /\ fmt[r].resolved[i] =
                       Some(toLowerCase(<<"@">> \o fmt[r].response[i][1].items[1].login))
                  /\ fmt[r].warns[i] = 0
             ELSE /\ fmt[r].resolved[i] = Some(toLowerCase(fmt[r].authors[i]))
                  /\ fmt[r].warns[i] = 1
        /\ (fmt[r].failed /\ fmt[r].classifyCalls = 0) =>
             \E j \in 1..Len(fmt[r].authors) : fmt[r].state[j] = "failed"

\* C4's case: the search for "A" gave no result, one warning was made and
\* formatFile returned "a" among the authors.
C4_Witness ==
  \E r \in Runs :
    \E i \in 1..Len(fmt[r].authors) :
      /\ fmt[r].authors[i] = <<"A">>
      /\ fmt[r].state[i] = "done"
      /\ fmt[r].response[i][1].items = <<>>
      /\ fmt[r].warns[i] = 1
      /\ fmt[r].returned # None
      /\ <<"a">> \in fmt[r].returned[1].authors[1]

(***************************************************************************)
(* C5                                                                      *)
(***************************************************************************)
\* C5: when the name of the ParsedContent gives no identifier, formatFile
\* throws an error that names the record's path before any search request or
\* assertCategory call is made for the record, and getFileDiff returns nothing.
C5_ExtractionFailsFast ==
  \A r \in Runs :
    (fmt[r].started /\ requireFilenameEipNum(fmt[r].file[1].name) = None) =>
      /\ fmt[r].failed
      /\ pc = "failed"
      /\ error = Some(Error("Extraction", fmt[r].file[1].path, ""))
      /\ fmt[r].authors = <<>>
      /\ fmt[r].issued = <<>>
      /\ fmt[r].order = <<>>
      /\ fmt[r].classifyCalls = 0
      /\ fmt[r].returned = None
      /\ result = None

\* C5's case: formatFile has thrown on a record without identifier whose author
\* list holds an email.
C5_Witness ==
  /\ fmt.head.started
  /\ fmt.head.file[1].name = "README.md"
  /\ Attrs(fmt.head).author = Some(<< <<"A">>, <<"b">> >>)
  /\ pc = "failed"
  /\ error[1].kind = "Extraction"
  /\ error[1].about = "EIPS/README.md"

(***************************************************************************)
(* C6                                                                      *)
(***************************************************************************)
\* C6: the authors of a FormattedFile are undefined exactly when the author
\* attribute is absent; a present author attribute, whatever its text, gives
\* a set.
C6_UndefinedIffAbsent ==
  \A r \in Runs :
    fmt[r].returned # None =>
      (fmt[r].returned[1].authors = None <=> Attrs(fmt[r]).author = None)

(***************************************************************************)
(* C7                                                                      *)
(***************************************************************************)
\* C7: whenever the response for the head or for the base revision carries an
\* encoding that requireEncoding rejects, getFileDiff throws that failure and
\* returns no FileDiff: it is never done, and when it has thrown without
\* formatting anything, what it threw is the encoding failure.
C7_EncodingFatal ==
  \A resp \in { headResp, baseResp } :
    (resp # None /\ BadEncoding(resp[1])) =>
      /\ pc # "done"
      /\ result = None
      /\ (pc = "failed" /\ ~fmt.head.started) =>
           (error # None /\ error[1].kind = "Encoding")

(***************************************************************************)
(* C8                                                                      *)
(***************************************************************************)
\* C8: the content requests are the head's, then the base's, each at most
\* once; none is sent before the change request is known, the base's only
\* after the head's has succeeded, and no formatting or search starts before
\* both have settled.
C8_FetchOrder ==
  /\ fetches \in { <<>>, <<HeadSha>>, <<HeadSha, BaseSha>> }
  /\ fetches # <<>> => pr # None
  /\ headResp # None => fetches # <<>>
  /\ Len(fetches) = 2 => (headResp # None /\ head # None)
  /\ baseResp # None => Len(fetches) = 2
  /\ \A r \in Runs : fmt[r].started => (headResp # None /\ baseResp # None)
  /\ pc \in { "formatHead", "formatBase", "done" } => Len(fetches) = 2

\* C8's case: getFileDiff has returned after both fetches and lookups in both
\* runs.
C8_Witness ==
  /\ pc = "done"
  /\ fetches = <<HeadSha, BaseSha>>
  /\ ~BaseFetchFailed
  /\ fmt.head.order # <<>>
  /\ fmt.base.order # <<>>

(***************************************************************************)
(* C9                                                                      *)
(***************************************************************************)
\* C9: every lookup of an author list is requested before any is waited for,
\* getAuthors returns only when all have settled, and whatever the order of
\* settling, the value at each position of the resolved sequence is the
\* resolution of the token at that position, so that the set returned depends
\* on the tokens and their lookup results alone.
C9_FanOutJoin ==
  \A r \in Runs :
    LET n == Len(fmt[r].authors)
    IN /\ \A i \in 1..n :
            /\ ~StartsWithAt(fmt[r].authors[i]) => fmt[r].issued[i] = 1
            /\ fmt[r].state[i] = "pending" => fmt[r].resolved[i] = None
            /\ fmt[r].state[i] \in { "sync", "done" } =>
                 fmt[r].resolved[i] = Some(Resolution(fmt[r], i))
       /\ (fmt[r].returned # None \/ fmt[r].classifyCalls > 0) =>
            \A i \in 1..n : fmt[r].state[i] \in { "sync", "done" }
       /\ (fmt[r].returned # None /\ ~fmt[r].falsy) =>
            fmt[r].returned[1].authors = Some({ Resolution(fmt[r], i) : i \in 1..n })

\* C9's case: the lookup of the second token settled before the first's, and
\* each position holds its own token's resolution.
C9_Witness ==
  \E r \in Runs :
    /\ fmt[r].authors = << <<"A">>, <<"b">> >>
    /\ fmt[r].order = <<2, 1>>
    /\ fmt[r].response[1][1].items = <<>>
    /\ fmt[r].response[2][1].items # <<>>
    /\ fmt[r].returned # None
    /\ fmt[r].resolved = << Some(<<"a">>), Some(<<"@", "a">>) >>

(***************************************************************************)
(* C10                                                                     *)
(***************************************************************************)
\* C10: when the name gives an identifier and assertCategory succeeds,
\* formatFile succeeds even if the eip, status or author attribute is absent,
\* and the field of the absent attribute is undefined.
C10_AbsentAttributesPass ==
  \A r \in Runs :
    (/\ fmt[r].started
     /\ requireFilenameEipNum(fmt[r].file[1].name) # None
     /\ assertCategory(Attrs(fmt[r]).category, fmt[r].file[1].name,
                       Attrs(fmt[r]).type) # None
     /\ \A i \in 1..Len(fmt[r].authors) : fmt[r].state[i] # "failed") =>
      /\ ~fmt[r].failed
      /\ fmt[r].returned # None =>
           /\ Attrs(fmt[r]).eip = None => fmt[r].returned[1].eipNum = None
           /\ Attrs(fmt[r]).author = None => fmt[r].returned[1].authors = None

====
